---- MODULE Spec2Model ----
(***************************************************************************)
(* A model of scale-typegen's Transformer (description/src/transformer.rs) *)
(* and of the structural type equality of typegen/src/utils.rs.            *)
(*                                                                         *)
(* Part 1 models one Transformer session: the cache behind the RefCell,    *)
(* the call stack of (re-entrant) resolve calls, and the three policies    *)
(* the caller supplies (specifications Spec and FairSpec).                 *)
(* Part 2 models types_equal and its GenericsList as operators, applied to *)
(* the pairs of type ids of a family of registries (specification EqSpec). *)
(* Part 3 models ensure_unique_type_paths and generate_types_mod, applied  *)
(* to a family of registries (specification PassSpec).                     *)
(***************************************************************************)
EXTENDS Integers, Sequences, FiniteSets, TLC

VARIABLES
    cache,          \* Transformer.cache: type id -> Cached<R> (or no entry)
    stack,          \* the running resolve calls, outermost first
    crashed,        \* "no", or the panic / abort that ended the session
    calls,          \* number of top-level resolve calls made so far
    hitMode,        \* which cache_hit_policy the session was built with
    recMode,        \* which recurse_policy the session was built with
    failing,        \* the type ids for which the compute policy returns Err
    computeCount,   \* per id: invocations of policy            (a counting wrapper)
    recurseCount,   \* per id: invocations of recurse_policy
    hitCount,       \* per id: invocations of cache_hit_policy
    lastRet,        \* the most recent return of a resolve call
    firstOk,        \* per id: the first Ok value any resolve(id) returned
    settled,        \* per id: the first Ok value an outermost resolve(id) returned
    failedAt,       \* per id: compute count when policy last returned Err for id
    eqTypes,        \* the registry types_equal is called on
    eqA,            \* its argument a
    eqB,            \* its argument b
    eqOut,          \* what types_equal(a, b, types) returned, once called
    eqRev,          \* what types_equal(b, a, types) returned, once called
    regTypes,       \* the registry handed to ensure_unique_type_paths / TypeGenerator
    regBefore,      \* the registry as it was before ensure_unique_type_paths
    substitutes,    \* settings.substitutes: the paths that are not generated
    deduped,        \* ensure_unique_type_paths has run
    genOut          \* what generate_types_mod returned, once called

tvars == <<cache, stack, crashed, calls, hitMode, recMode, failing,
           computeCount, recurseCount, hitCount, lastRet, firstOk, settled, failedAt>>

evars == <<eqTypes, eqA, eqB, eqOut, eqRev>>

pvars == <<regTypes, regBefore, substitutes, deduped, genOut>>

vars == <<tvars, evars, pvars>>

----------------------------------------------------------------------------
(* Bounds of the model. *)

\* top-level resolve calls in one session
MaxCalls == 2
\* frames the call stack holds before the process aborts (stack exhaustion)
MaxDepth == 7

----------------------------------------------------------------------------
(* The type registry (scale_info::PortableRegistry): types[id + 1] is the  *)
(* type with that id.                                                      *)

Field(name, typeName, ty) == [name |-> name, type_name |-> typeName, ty |-> ty]
Param(name, ty) == [name |-> name, ty |-> ty]
Variant(name, index, fields) == [name |-> name, index |-> index, fields |-> fields]

\* TypeParameter.ty is an Option: NoTy is None
NoTy == -1

TypeNode(path, params, tag, fields, variants, elems, len, prim) ==
    [path |-> path, type_params |-> params, tag |-> tag, fields |-> fields,
     variants |-> variants, elems |-> elems, len |-> len, prim |-> prim]

Composite(path, params, fields) ==
    TypeNode(path, params, "Composite", fields, <<>>, <<>>, 0, "")
VariantTy(path, params, variants) ==
    TypeNode(path, params, "Variant", <<>>, variants, <<>>, 0, "")
SequenceTy(elem) == TypeNode(<<>>, <<>>, "Sequence", <<>>, <<>>, <<elem>>, 0, "")
ArrayTy(len, elem) == TypeNode(<<>>, <<>>, "Array", <<>>, <<>>, <<elem>>, len, "")
TupleTy(elems) == TypeNode(<<>>, <<>>, "Tuple", <<>>, <<>>, elems, 0, "")
CompactTy(elem) == TypeNode(<<>>, <<>>, "Compact", <<>>, <<>>, <<elem>>, 0, "")
PrimitiveTy(kind) == TypeNode(<<>>, <<>>, "Primitive", <<>>, <<>>, <<>>, 0, kind)
BitSequenceTy(store, order) ==
    TypeNode(<<>>, <<>>, "BitSequence", <<>>, <<>>, <<store, order>>, 0, "")

\* The registry of the session:
\*   0  struct A { bees: Vec<B> }
\*   1  Vec<B>
\*   2  struct B { id: u8, others: Vec<B> }
\*   3  u8
\*   4  enum L { Nil, Cons(u8, Box<L>) }     (refers to itself directly)
\*   5  a sequence whose element type is itself (a cycle of wrappers only)
\*   6  (u8, #7)                              (#7 is not in the registry)
SessionTypes ==
    << Composite(<<"m", "A">>, <<>>, <<Field("bees", "Vec<B>", 1)>>),
       SequenceTy(2),
       Composite(<<"m", "B">>, <<>>,
                 <<Field("id", "u8", 3), Field("others", "Vec<B>", 1)>>),
       PrimitiveTy("U8"),
       VariantTy(<<"m", "L">>, <<>>,
                 <<Variant("Nil", 0, <<>>),
                   Variant("Cons", 1, <<Field("", "u8", 3), Field("", "Box<L>", 4)>>)>>),
       SequenceTy(5),
       TupleTy(<<3, 7>>) >>

\* the ids a caller may pass to resolve: those of the registry and one more
Ids == 0 .. Len(SessionTypes)

\* PortableRegistry::resolve(id).is_some()
InRegistryAlways(id) == TRUE
InRegistry(id) == id >= 0 /\ id < Len(SessionTypes)

TypeOf(id) == SessionTypes[id + 1]

RECURSIVE Flatten(_)
Flatten(ss) == IF ss = <<>> THEN <<>> ELSE Head(ss) \o Flatten(Tail(ss))

\* the type ids a type refers to, in declaration order
ChildrenOf(ty) ==
    CASE ty.tag = "Composite" -> [i \in 1 .. Len(ty.fields) |-> ty.fields[i].ty]
      [] ty.tag = "Variant" ->
            Flatten([v \in 1 .. Len(ty.variants) |->
                        [i \in 1 .. Len(ty.variants[v].fields) |->
                            ty.variants[v].fields[i].ty]])
      [] OTHER -> ty.elems

Children(id) == IF id >= 0 /\ id < Len(SessionTypes) THEN ChildrenOf(TypeOf(id)) ELSE <<>>

\* recursion_should_continue: true for the generic wrapper types
RecursionShouldContinueAll(tag) == tag # "Primitive"
RecursionShouldContinue(tag) ==
    CASE tag = "Sequence" -> TRUE
      [] tag = "Array" -> TRUE
      [] tag = "Tuple" -> TRUE
      [] tag = "Compact" -> TRUE
      [] tag = "Composite" -> FALSE
      [] tag = "Primitive" -> FALSE
      [] tag = "Variant" -> FALSE
      [] tag = "BitSequence" -> FALSE

----------------------------------------------------------------------------
(* Values of the representation type R, and anyhow::Result<R>.             *)

NoVal == [kind |-> "none", id |-> 0, kids |-> <<>>]
NodeVal(id, kids) == [kind |-> "node", id |-> id, kids |-> kids]
RefVal(id) == [kind |-> "ref", id |-> id, kids |-> <<>>]

Ok(v) == [ok |-> TRUE, val |-> v, err |-> "", eid |-> 0]
Err(e, id) == [ok |-> FALSE, val |-> NoVal, err |-> e, eid |-> id]
\* no result (a frame that waits for no nested call)
NoRes == [ok |-> FALSE, val |-> NoVal, err |-> "-", eid |-> 0]
\* a policy's Option::None
None == [ok |-> FALSE, val |-> NoVal, err |-> "None", eid |-> 0]

\* Cached<R>, and the absence of an entry in the HashMap
Absent == [st |-> "Absent", val |-> NoVal]
Recursive == [st |-> "Recursive", val |-> NoVal]
Computed(v) == [st |-> "Computed", val |-> v]

----------------------------------------------------------------------------
(* The policies a session is built with.                                   *)

\* the id a policy that re-enters resolve asks for
Probe == 4

HitModes == {"cached", "none", "nested"}
RecModes == {"err", "name", "nested"}
FailChoices == {{}, {2}, {3}}

\* a policy's request to call transformer.resolve(Probe) before it returns
CallProbe == [ok |-> FALSE, val |-> NoVal, err |-> "resolve", eid |-> Probe]

\* recurse_policy, as far as it decides without a nested call: None for the
\* types recursion_should_continue names, Some(..) for the others. In mode
\* "nested" the policy returns Some(transformer.resolve(Probe)).
RecursePolicy(mode, id) ==
    IF RecursionShouldContinue(TypeOf(id).tag) THEN None
    ELSE CASE mode = "err" -> Err("Recursion", id)
           [] mode = "name" -> Ok(RefVal(id))
           [] mode = "nested" ->
                IF id = Probe THEN Err("Recursion", id) ELSE CallProbe

\* cache_hit_policy: the cached value (Some(Ok(repr.clone()))), None, or
\* the cached value after a call of resolve(Probe) whose result is dropped.
CacheHitPolicy(mode, id, repr) ==
    CASE mode = "cached" -> Ok(repr)
      [] mode = "none" -> None
      [] mode = "nested" -> IF id = Probe THEN Ok(repr) ELSE CallProbe

\* policy (the compute rule): resolves each child once, in order, with `?`,
\* and then builds the node, or fails for the ids of `failing`.
ComputeResult(id, kids, fails) ==
    IF id \in fails THEN Err("Unrepresentable", id) ELSE Ok(NodeVal(id, kids))

----------------------------------------------------------------------------
(* The call stack. A frame is one running call of Transformer::resolve,    *)
(* together with the policy it is inside of:                               *)
(*   pc = "start"    at line 70                                            *)
(*   pc = "policy"   inside recurse_policy / cache_hit_policy (lines 78,   *)
(*                   79), which runs while the Ref of line 75 is alive     *)
(*   pc = "mark"     at line 90                                            *)
(*   pc = "compute"  inside policy (line 91), about to resolve child k     *)
(*   pc = "store"    at line 92, policy has returned Ok(r)                 *)
(* The fields prior.. are a record of the session at the time of the call, *)
(* kept to state properties of the call when it returns.                   *)

Unset == [set |-> FALSE, val |-> NoVal, cnt |-> 0]
Known(v, n) == [set |-> TRUE, val |-> v, cnt |-> n]

Counts == <<computeCount, recurseCount, hitCount>>

NewFrame(id) ==
    [id |-> id, pc |-> "start", via |-> "", held |-> FALSE, k |-> 1,
     kids |-> <<>>, ret |-> NoRes, r |-> NoVal,
     entry |-> cache[id].st, snapCache |-> cache, snapCounts |-> Counts,
     prior |-> firstOk[id], priorSettled |-> settled[id],
     priorFailed |-> failedAt[id].set]

Top == stack[Len(stack)]
Running == crashed = "no" /\ stack # <<>>
TopAt(pc) == Running /\ Top.pc = pc

SetTop(f) == [stack EXCEPT ![Len(stack)] = f]

\* the number of Ref guards alive: one per frame that is inside the match
\* of lines 75-88
SharedBorrows(stk) == Cardinality({i \in 1 .. Len(stk) : stk[i].held})

\* RefCell::borrow_mut panics while any Ref is alive
BorrowMutNeverPanics(stk) == TRUE
BorrowMutPanics(stk) == SharedBorrows(stk) > 0

OnStack(stk, id) == \E i \in 1 .. Len(stk) : stk[i].id = id

\* a call of resolve(id) made by the frame on top (already updated to f)
Push(f, id) ==
    IF Len(stack) >= MaxDepth
    THEN /\ crashed' = "StackOverflow"
         /\ stack' = SetTop(f)
    ELSE /\ crashed' = crashed
         /\ stack' = Append(SetTop(f), NewFrame(id))

\* the frame on top returns res; the frame below (if any) receives it
Return(res, via, pol, newCache, newCounts) ==
    LET f == Top
        rest == SubSeq(stack, 1, Len(stack) - 1)
        outer == ~OnStack(rest, f.id)
    IN /\ stack' = IF rest = <<>> THEN rest
                   ELSE [rest EXCEPT ![Len(rest)].ret = res]
       /\ lastRet' = [id |-> f.id, res |-> res, via |-> via, pol |-> pol,
                      entry |-> f.entry,
                      cacheSame |-> (newCache = f.snapCache),
                      countsSame |-> (newCounts = f.snapCounts),
                      newComputes |-> newCounts[1][f.id] - f.snapCounts[1][f.id],
                      prior |-> f.prior, priorSettled |-> f.priorSettled,
                      priorFailed |-> f.priorFailed,
                      depth |-> Len(stack)]
       /\ firstOk' = IF res.ok /\ ~firstOk[f.id].set
                     THEN [firstOk EXCEPT ![f.id] = Known(res.val, newCounts[1][f.id])]
                     ELSE firstOk
       /\ settled' = IF res.ok /\ outer /\ ~settled[f.id].set
                     THEN [settled EXCEPT ![f.id] = Known(res.val, newCounts[1][f.id])]
                     ELSE settled

NoReturn == UNCHANGED <<lastRet, firstOk, settled>>
Config == <<hitMode, recMode, failing>>

NoRet == [id |-> -1, res |-> NoRes, via |-> "", pol |-> NoRes, entry |-> "",
          cacheSame |-> TRUE, countsSame |-> TRUE, newComputes |-> 0,
          prior |-> Unset, priorSettled |-> Unset, priorFailed |-> FALSE,
          depth |-> 0]

Zero == [i \in Ids |-> 0]
Bump(count, id) == [count EXCEPT ![id] = @ + 1]

\* what a call of types_equal_inner gives back: the boolean and the two
\* visited sets as the call left them; panic stands for the `expect` of
\* lines 141-142. NotCalled: the call has not been made.
\* (depth: the deepest nesting of types_equal_inner calls that went on to
\* compare the two types' shapes; generic: the pairs of ids that were taken
\* for equal at lines 135-139; overflow: the stack was exhausted)
EqResult(eq, av, bv) ==
    [called |-> TRUE, eq |-> eq, av |-> av, bv |-> bv, panic |-> FALSE,
     depth |-> 0, generic |-> {}, overflow |-> FALSE]
EqPanic(av, bv) ==
    [called |-> TRUE, eq |-> FALSE, av |-> av, bv |-> bv, panic |-> TRUE,
     depth |-> 0, generic |-> {}, overflow |-> FALSE]
EqOverflow(av, bv) ==
    [called |-> TRUE, eq |-> FALSE, av |-> av, bv |-> bv, panic |-> TRUE,
     depth |-> 0, generic |-> {}, overflow |-> TRUE]
NotCalled ==
    [called |-> FALSE, eq |-> FALSE, av |-> {}, bv |-> {}, panic |-> FALSE,
     depth |-> 0, generic |-> {}, overflow |-> FALSE]

\* the result r of a call made at nesting depth d
Deeper(r, d) == [r EXCEPT !.depth = IF @ < d THEN d ELSE @]

\* the result r of a call made after the call that returned earlier
After(r, earlier) ==
    [Deeper(r, earlier.depth) EXCEPT !.generic = @ \cup earlier.generic]

\* lines 135-139 returned true for a and b, at index idx of both lists
EqGeneric(av, bv, a, b, idx, level) ==
    [EqResult(TRUE, av, bv) EXCEPT
        !.generic = {[a |-> a, b |-> b, idx |-> idx, level |-> level]}]

\* generate_types_mod has not been called
NotGenerated == [called |-> FALSE, ok |-> FALSE, err |-> "", at |-> -1, types |-> {}]

\* no registry is being prepared for generation
PassIdle ==
    /\ regTypes = <<>>
    /\ regBefore = <<>>
    /\ substitutes = {}
    /\ deduped = FALSE
    /\ genOut = NotGenerated

\* no call of types_equal is under way
EqIdle ==
    /\ eqTypes = <<>>
    /\ eqA = 0
    /\ eqB = 0
    /\ eqOut = NotCalled
    /\ eqRev = NotCalled

\* Transformer::new, with the policies of the session
Init ==
    /\ EqIdle
    /\ PassIdle
    /\ cache = [i \in Ids |-> Absent]
    /\ stack = <<>>
    /\ crashed = "no"
    /\ calls = 0
    /\ hitMode \in HitModes
    /\ recMode \in RecModes
    /\ failing \in FailChoices
    /\ computeCount = Zero
    /\ recurseCount = Zero
    /\ hitCount = Zero
    /\ lastRet = NoRet
    /\ firstOk = [i \in Ids |-> Unset]
    /\ settled = [i \in Ids |-> Unset]
    /\ failedAt = [i \in Ids |-> Unset]

\* the caller of the session calls resolve(id)
Call(id) ==
    /\ UNCHANGED <<evars, pvars>>
    /\ crashed = "no"
    /\ stack = <<>>
    /\ calls < MaxCalls
    /\ calls' = calls + 1
    /\ stack' = <<NewFrame(id)>>
    /\ UNCHANGED <<cache, crashed, Config, Counts, lastRet, firstOk, settled, failedAt>>

\* lines 70-73: the id is not in the registry
ResolveNotFound ==
    /\ UNCHANGED <<evars, pvars>>
    /\ TopAt("start")
    /\ ~InRegistry(Top.id)
    /\ Return(Err("TypeNotFound", Top.id), "notfound", NoRes, cache, Counts)
    /\ UNCHANGED <<cache, crashed, calls, Config, Counts, failedAt>>

\* lines 75, 87: the cache has no entry for the id
ResolveMiss ==
    /\ UNCHANGED <<evars, pvars>>
    /\ TopAt("start")
    /\ InRegistry(Top.id)
    /\ cache[Top.id].st = "Absent"
    /\ stack' = SetTop([Top EXCEPT !.pc = "mark"])
    /\ NoReturn
    /\ UNCHANGED <<cache, crashed, calls, Config, Counts, failedAt>>

\* what lines 77-85 do with a policy's outcome: return it (Some), go on to
\* line 90 (None); a policy that calls resolve first runs on, the Ref alive
AfterPolicy(out, via, newCounts) ==
    CASE out = None ->
            /\ stack' = SetTop([Top EXCEPT !.pc = "mark", !.via = via])
            /\ crashed' = crashed
            /\ NoReturn
      [] out = CallProbe ->
            /\ Push([Top EXCEPT !.pc = "policy", !.via = via, !.held = TRUE], Probe)
            /\ NoReturn
      [] OTHER ->
            /\ Return(out, via, out, cache, newCounts)
            /\ crashed' = crashed

\* lines 75-78, 82-84: the entry is Cached::Recursive
ResolveRecursive ==
    /\ UNCHANGED <<evars, pvars>>
    /\ TopAt("start")
    /\ InRegistry(Top.id)
    /\ cache[Top.id].st = "Recursive"
    /\ recurseCount' = Bump(recurseCount, Top.id)
    /\ AfterPolicy(RecursePolicy(recMode, Top.id), "recurse",
                   <<computeCount, recurseCount', hitCount>>)
    /\ UNCHANGED <<cache, calls, Config, computeCount, hitCount, failedAt>>

\* lines 75-79, 82-84: the entry is Cached::Computed(repr)
ResolveHit ==
    /\ UNCHANGED <<evars, pvars>>
    /\ TopAt("start")
    /\ InRegistry(Top.id)
    /\ cache[Top.id].st = "Computed"
    /\ hitCount' = Bump(hitCount, Top.id)
    /\ AfterPolicy(CacheHitPolicy(hitMode, Top.id, cache[Top.id].val), "hit",
                   <<computeCount, recurseCount, hitCount'>>)
    /\ UNCHANGED <<cache, calls, Config, computeCount, recurseCount, failedAt>>

\* the resolve(Probe) a policy called has returned: the policy returns, and
\* with it resolve (lines 82-84); the Ref of line 75 is dropped
PolicyReturn ==
    /\ UNCHANGED <<evars, pvars>>
    /\ TopAt("policy")
    /\ Top.ret # NoRes
    /\ LET out == IF Top.via = "recurse" THEN Top.ret ELSE Ok(cache[Top.id].val)
       IN Return(out, Top.via, out, cache, Counts)
    /\ UNCHANGED <<cache, crashed, calls, Config, Counts, failedAt>>

\* lines 90-91: insert Cached::Recursive, then call policy
Mark ==
    /\ UNCHANGED <<evars, pvars>>
    /\ TopAt("mark")
    /\ IF BorrowMutPanics(stack)
       THEN /\ crashed' = "BorrowMutError"
            /\ UNCHANGED <<cache, stack, computeCount>>
       ELSE /\ cache' = [cache EXCEPT ![Top.id] = Recursive]
            /\ computeCount' = Bump(computeCount, Top.id)
            /\ stack' = SetTop([Top EXCEPT !.pc = "compute", !.k = 1, !.kids = <<>>])
            /\ crashed' = crashed
    /\ NoReturn
    /\ UNCHANGED <<calls, Config, recurseCount, hitCount, failedAt>>

\* policy calls transformer.resolve(child)
ComputeResolveChild ==
    /\ UNCHANGED <<evars, pvars>>
    /\ TopAt("compute")
    /\ Top.ret = NoRes
    /\ Top.k <= Len(Children(Top.id))
    /\ Push(Top, Children(Top.id)[Top.k])
    /\ NoReturn
    /\ UNCHANGED <<cache, calls, Config, Counts, failedAt>>

\* resolve(child) returned Ok: policy goes on to the next child
ComputeChildOk ==
    /\ UNCHANGED <<evars, pvars>>
    /\ TopAt("compute")
    /\ Top.ret # NoRes
    /\ Top.ret.ok
    /\ stack' = SetTop([Top EXCEPT !.kids = Append(@, Top.ret.val),
                                   !.k = @ + 1, !.ret = NoRes])
    /\ NoReturn
    /\ UNCHANGED <<cache, crashed, calls, Config, Counts, failedAt>>

\* the `?` of line 91: anyhow::Error into anyhow::Error
PropagateWrapped(e) == Err("Wrapped", e.eid)
Propagate(e) == e

\* what the failure of policy leaves in the cache: line 91 returns early
CacheAfterFailureCleared(c, id) == [c EXCEPT ![id] = Absent]
CacheAfterFailure(c, id) == c

\* policy returned Err(e): line 91 returns it
Fail(e) ==
    /\ cache' = CacheAfterFailure(cache, Top.id)
    /\ Return(Propagate(e), "fail", e, cache', Counts)
    /\ failedAt' = [failedAt EXCEPT ![Top.id] = Known(NoVal, computeCount[Top.id])]

\* resolve(child) returned Err: policy returns it (its own `?`)
ComputeChildErr ==
    /\ UNCHANGED <<evars, pvars>>
    /\ TopAt("compute")
    /\ Top.ret # NoRes
    /\ ~Top.ret.ok
    /\ Fail(Top.ret)
    /\ UNCHANGED <<crashed, calls, Config, Counts>>

\* policy has resolved every child and returns
ComputeDone ==
    /\ UNCHANGED <<evars, pvars>>
    /\ TopAt("compute")
    /\ Top.ret = NoRes
    /\ Top.k > Len(Children(Top.id))
    /\ LET res == ComputeResult(Top.id, Top.kids, failing)
       IN IF res.ok
          THEN /\ stack' = SetTop([Top EXCEPT !.pc = "store", !.r = res.val])
               /\ NoReturn
               /\ UNCHANGED <<cache, failedAt>>
          ELSE Fail(res)
    /\ UNCHANGED <<crashed, calls, Config, Counts>>

\* lines 92-94: the entry the successful call leaves
StoredNothing(r) == Recursive
Stored(r) == Computed(r)

\* lines 92-95: insert Cached::Computed(r.clone()) and return Ok(r)
Store ==
    /\ UNCHANGED <<evars, pvars>>
    /\ TopAt("store")
    /\ IF BorrowMutPanics(stack)
       THEN /\ crashed' = "BorrowMutError"
            /\ NoReturn
            /\ UNCHANGED <<cache, stack>>
       ELSE /\ cache' = [cache EXCEPT ![Top.id] = Stored(Top.r)]
            /\ Return(Ok(Top.r), "store", Ok(Top.r), cache', Counts)
            /\ crashed' = crashed
    /\ UNCHANGED <<calls, Config, Counts, failedAt>>

\* one step of the running resolve call
Step ==
    \/ ResolveNotFound
    \/ ResolveMiss
    \/ ResolveRecursive
    \/ ResolveHit
    \/ PolicyReturn
    \/ Mark
    \/ ComputeResolveChild
    \/ ComputeChildOk
    \/ ComputeChildErr
    \/ ComputeDone
    \/ Store

Next ==
    \/ \E id \in Ids : Call(id)
    \/ Step

Spec == Init /\ [][Next]_vars

\* a call that has started runs on: the program is sequential code
FairSpec == Spec /\ WF_vars(Step)

----------------------------------------------------------------------------
(* Properties of a Transformer session.                                    *)

KnownId(i) == i < Len(SessionTypes)
WrapperTags == {"Sequence", "Array", "Tuple", "Compact"}
IsWrapper(i) == KnownId(i) /\ TypeOf(i).tag \in WrapperTags
NonWrapper(i) == KnownId(i) /\ TypeOf(i).tag \notin WrapperTags

ChildSet(i) == {Children(i)[k] : k \in 1 .. Len(Children(i))}

RECURSIVE ReachFrom(_)
ReachFrom(S) ==
    LET N == S \cup UNION {ChildSet(i) : i \in S}
    IN IF N = S THEN S ELSE ReachFrom(N)

\* the wrapper types reached from the set S through wrapper types only
RECURSIVE WrapperReach(_)
WrapperReach(S) ==
    LET N == S \cup {j \in UNION {ChildSet(i) : i \in S} : IsWrapper(j)}
    IN IF N = S THEN S ELSE WrapperReach(N)

OnWrapperCycle(w) ==
    IsWrapper(w) /\ w \in WrapperReach({j \in ChildSet(w) : IsWrapper(j)})

\* every reference cycle reachable from r passes through a non-wrapper node
GoodRoot(r) == \A w \in ReachFrom({r}) : ~OnWrapperCycle(w)

\* the policies of the default heuristic, none of which re-enters resolve
\* except policy itself
DefaultPolicies == recMode \in {"err", "name"} /\ hitMode \in {"cached", "none"}
ReturnsCached == hitMode \in {"cached", "nested"}

\* C1, as claimed: once some resolve(id) has returned Ok(v), every resolve(id)
\* called later returns Ok(v) and policy does not run for id again, in a
\* session whose cache_hit_policy returns the cached value.
C1_IdempotentAfterAnyOk ==
    (ReturnsCached /\ lastRet.prior.set) =>
        /\ lastRet.res = Ok(lastRet.prior.val)
        /\ lastRet.newComputes = 0

\* C1, amended: once a resolve(id) that was not nested inside another running
\* resolve(id) has returned Ok(v), every resolve(id) called later returns
\* Ok(v), and the number of runs of policy for id does not grow any more, in a
\* session whose cache_hit_policy returns the cached value.
C1_Idempotent ==
    ReturnsCached =>
        /\ lastRet.priorSettled.set =>
              /\ lastRet.res = Ok(lastRet.priorSettled.val)
              /\ lastRet.newComputes = 0
        /\ \A i \in Ids : settled[i].set => computeCount[i] = settled[i].cnt

C1_Witness ==
    /\ hitMode = "cached"
    /\ lastRet.priorSettled.set
    /\ lastRet.via = "hit"
    /\ lastRet.res.ok
    /\ lastRet.depth = 1
    /\ IsWrapper(lastRet.id)
    /\ computeCount[lastRet.id] = 2

\* C2: under the default heuristic, a resolve call on a root all of whose
\* reference cycles pass through a non-wrapper node runs to its end: the
\* call returns (Ok or Err) and the process neither panics nor exhausts its
\* stack.
C2_Terminates ==
    (Running /\ DefaultPolicies /\ GoodRoot(stack[1].id))
        ~> (stack = <<>> /\ crashed = "no")

C2_Witness ==
    /\ DefaultPolicies
    /\ stack = <<>>
    /\ crashed = "no"
    /\ lastRet.id = 0
    /\ lastRet.depth = 1
    /\ lastRet.res.ok
    /\ computeCount[1] = 2
    /\ computeCount[2] = 1

\* C3: a resolve(A) called while the cache holds Recursive for A, a type
\* that is no wrapper, never gets past the recurse policy: it does not run
\* policy for A, leaves the cache as it found it, and returns what the
\* recurse policy returned.
C3_SelfReference ==
    /\ \A n \in 1 .. Len(stack) :
          LET f == stack[n]
          IN (f.entry = "Recursive" /\ NonWrapper(f.id)) =>
                /\ f.pc \in {"start", "policy"}
                /\ n = Len(stack) => cache = f.snapCache
                /\ computeCount[f.id] = f.snapCounts[1][f.id]
    /\ (lastRet.entry = "Recursive" /\ NonWrapper(lastRet.id)) =>
          /\ lastRet.via = "recurse"
          /\ lastRet.res = lastRet.pol
          /\ recMode = "err" => lastRet.res = Err("Recursion", lastRet.id)
          /\ recMode = "name" => lastRet.res = Ok(RefVal(lastRet.id))
          /\ lastRet.newComputes = 0
          /\ lastRet.cacheSame

C3_Witness ==
    /\ lastRet.entry = "Recursive"
    /\ lastRet.id = 4
    /\ lastRet.via = "recurse"
    /\ lastRet.depth = 2
    /\ Len(stack) = 1
    /\ stack[1].id = 4
    /\ stack[1].pc = "compute"

\* C4, as claimed, in its best case (a session built with the default
\* policies, and the types on which resolve terminates): policy runs at most
\* once for each type id.
C4_AtMostOncePerId ==
    (recMode \in {"err", "name"} /\ hitMode = "cached") =>
        \A i \in Ids : GoodRoot(i) => computeCount[i] <= 1

\* C4, amended: in a session whose cache_hit_policy returns a result, policy
\* runs at most once for each type id that is no wrapper (Composite,
\* Variant, Primitive, BitSequence).
C4_AtMostOncePerNonWrapper ==
    hitMode # "none" => \A i \in Ids : NonWrapper(i) => computeCount[i] <= 1

C4_Witness ==
    /\ hitMode = "cached"
    /\ stack = <<>>
    /\ calls = 2
    /\ computeCount[2] = 1
    /\ computeCount[1] = 2
    /\ hitCount[2] > 0

\* C5, as claimed: once policy has returned Err for id, resolve(id) has
\* returned that error, the entry of id is Recursive and stays so, and a later
\* resolve(id) goes to the recurse policy and never runs policy for id again.
C5_FailureLeavesInProgress ==
    /\ lastRet.via = "fail" => (~lastRet.res.ok /\ lastRet.res = lastRet.pol)
    /\ \A i \in Ids : failedAt[i].set =>
          /\ cache[i].st = "Recursive"
          /\ computeCount[i] = failedAt[i].cnt

\* C5, amended: when policy returns Err for id, resolve(id) returns that
\* error unchanged and the entry of id is not removed. For an id that is no
\* wrapper the entry is Recursive and stays so, policy never runs for id
\* again, and every later resolve(id) returns through the recurse policy.
\* (For a wrapper the recurse policy returns None: policy runs again, and the
\* entry may be Computed, stored by a resolve(id) nested in the failed one.)
C5_Failure ==
    /\ lastRet.via = "fail" => (~lastRet.res.ok /\ lastRet.res = lastRet.pol)
    /\ \A i \in Ids : failedAt[i].set =>
          /\ cache[i].st # "Absent"
          /\ NonWrapper(i) =>
                /\ cache[i].st = "Recursive"
                /\ computeCount[i] = failedAt[i].cnt
    /\ (lastRet.priorFailed /\ NonWrapper(lastRet.id)) =>
          /\ lastRet.via = "recurse"
          /\ lastRet.newComputes = 0

C5_Witness ==
    /\ failing = {2}
    /\ lastRet.id = 2
    /\ lastRet.priorFailed
    /\ lastRet.via = "recurse"
    /\ lastRet.depth = 1
    /\ cache[2].st = "Recursive"
    /\ computeCount[2] = 1

\* C6, as claimed: an entry, once present, is never removed, and moves only
\* from absent to Recursive to Computed; a Computed entry stays Computed.
C6_EntryNeverGoesBack ==
    [][\A i \in Ids :
          /\ cache[i].st # "Absent" => cache'[i].st # "Absent"
          /\ cache[i].st = "Absent" => cache'[i].st \in {"Absent", "Recursive"}
          /\ cache[i].st = "Computed" => cache'[i].st = "Computed"]_vars

\* C6, amended: an entry, once present, is never removed; an absent entry
\* becomes Recursive first; a Computed entry stays Computed unless the
\* cache_hit_policy returns None for it, in which case line 90 marks it
\* Recursive again.
C6_Lifecycle ==
    [][\A i \in Ids :
          /\ cache[i].st # "Absent" => cache'[i].st # "Absent"
          /\ cache[i].st = "Absent" => cache'[i].st \in {"Absent", "Recursive"}
          /\ (cache[i].st = "Computed" /\ hitMode # "none") =>
                cache'[i].st = "Computed"]_vars

C6_Witness ==
    /\ hitMode = "cached"
    /\ \E i \in Ids : cache[i].st = "Computed" /\ hitCount[i] > 0
    /\ \E i \in Ids : cache[i].st = "Recursive" /\ failedAt[i].set
    /\ stack = <<>>

\* C7: a resolve call that a policy makes on the same Transformer never
\* meets a borrow conflict on the cache.
C7_NoBorrowConflict == crashed # "BorrowMutError"

\* C8: resolve(id) for an id the registry does not hold returns the
\* not-found error; no policy runs during the call and the cache is as it was,
\* whatever it holds for the other ids.
AllCountsZero(i) == computeCount[i] = 0 /\ recurseCount[i] = 0 /\ hitCount[i] = 0

C8_UnknownId ==
    /\ \A i \in Ids : ~KnownId(i) => (cache[i] = Absent /\ AllCountsZero(i))
    /\ \A n \in 1 .. Len(stack) :
          ~KnownId(stack[n].id) =>
              /\ stack[n].pc = "start"
              /\ n = Len(stack)
              /\ cache = stack[n].snapCache
              /\ Counts = stack[n].snapCounts
    /\ (lastRet.id >= 0 /\ ~KnownId(lastRet.id)) =>
          /\ lastRet.res = Err("TypeNotFound", lastRet.id)
          /\ lastRet.via = "notfound"
          /\ lastRet.cacheSame
          /\ lastRet.countsSame

C8_Witness ==
    /\ ~KnownId(lastRet.id)
    /\ lastRet.id >= 0
    /\ lastRet.depth = 2
    /\ lastRet.via = "notfound"
    /\ \E i \in Ids : cache[i].st = "Computed"
    /\ \E i \in Ids : cache[i].st = "Recursive"

----------------------------------------------------------------------------
(* Part 2: types_equal (typegen/src/utils.rs).                             *)

\* index_for_type_id's None
NoIdx == -1

\* GenericsList: the levels from the root (first) to the innermost (last);
\* `previous` of a level is the one before it.
\* GenericsList::new_inner(None, &[])
GenericsEmpty == << [start_idx |-> 0, generics_by_id |-> <<>>] >>

\* params.iter().filter_map(|p| p.ty.map(|ty| ty.id)).collect()
BoundIds(params) ==
    LET bound == SelectSeq(params, LAMBDA q : q.ty # NoTy)
    IN [i \in 1 .. Len(bound) |-> bound[i].ty]

\* GenericsList::extend
GenericsExtend(list, params) ==
    LET last == list[Len(list)]
    IN Append(list, [start_idx |-> last.start_idx + Len(last.generics_by_id),
                     generics_by_id |-> BoundIds(params)])

\* the first match in one level's generics_by_id (lines 268-274)
IndexInLevel(level, type_id) ==
    LET hits == {i \in 1 .. Len(level.generics_by_id) : level.generics_by_id[i] = type_id}
    IN IF hits = {} THEN NoIdx
       ELSE level.start_idx + (CHOOSE i \in hits : \A j \in hits : i <= j) - 1

IndexForTypeIdInnermostOnly(list, type_id) == IndexInLevel(list[Len(list)], type_id)

\* GenericsList::index_for_type_id: the first match in the innermost level,
\* or else in the previous ones
RECURSIVE IndexForTypeId(_, _)
IndexForTypeId(list, type_id) ==
    LET maybe_index == IndexInLevel(list[Len(list)], type_id)
    IN IF maybe_index # NoIdx THEN maybe_index
       ELSE IF Len(list) = 1 THEN NoIdx
       ELSE IndexForTypeId(SubSeq(list, 1, Len(list) - 1), type_id)

\* PortableRegistry::resolve
EqInRegistry(types, id) == id >= 0 /\ id < Len(types)
EqResolve(types, id) == types[id + 1]

\* lines 116-120: one side has been seen before and the other has not
SeenOnOneSideOnly(seen_a, seen_b) == seen_a /\ ~seen_b
SeenDiffers(seen_a, seen_b) == seen_a # seen_b

\* lines 135-139: both ids are bound to the same generic parameter
SameGeneric(a_idx, b_idx) == a_idx # NoIdx /\ b_idx # NoIdx /\ a_idx = b_idx

\* lines 150-157: zip stops at the shorter list
ParamNamesDiffer(a_params, b_params) ==
    \E i \in 1 .. Len(a_params) :
        i <= Len(b_params) /\ a_params[i].name # b_params[i].name

\* lines 178-180
FieldCountsDifferOneWay(a_fields, b_fields) == Len(a_fields) > Len(b_fields)
FieldCountsDiffer(a_fields, b_fields) == Len(a_fields) # Len(b_fields)

\* lines 182-183: a.name == b.name && a.type_name == b.type_name
FieldLabelsDifferByName(a_field, b_field) == a_field.name # b_field.name
FieldLabelsDiffer(a_field, b_field) ==
    a_field.name # b_field.name \/ a_field.type_name # b_field.type_name

RECURSIVE TypesEqualInner(_, _, _, _, _, _, _)
RECURSIVE IdsEqualFrom(_, _, _, _, _, _, _, _)
RECURSIVE FieldsEqualFrom(_, _, _, _, _, _, _, _)
RECURSIVE VariantsEqualFrom(_, _, _, _, _, _, _, _)

\* .all(|(a, b)| types_equal_recurse(a.id, .., b.id, ..)) from position i on
\* (lines 213-216); all() stops at the first false
IdsEqualFrom(types, i, a_ids, a_params, av, b_ids, b_params, bv) ==
    IF i > Len(a_ids) \/ i > Len(b_ids) THEN EqResult(TRUE, av, bv)
    ELSE LET r == TypesEqualInner(types, a_ids[i], a_params, av, b_ids[i], b_params, bv)
         IN IF r.panic \/ ~r.eq THEN r
            ELSE After(IdsEqualFrom(types, i + 1, a_ids, a_params, r.av,
                                    b_ids, b_params, r.bv), r)

\* lines 181-185, from position i on
FieldsEqualFrom(types, i, a_fields, a_params, av, b_fields, b_params, bv) ==
    IF i > Len(a_fields) \/ i > Len(b_fields) THEN EqResult(TRUE, av, bv)
    ELSE IF FieldLabelsDiffer(a_fields[i], b_fields[i]) THEN EqResult(FALSE, av, bv)
    ELSE LET r == TypesEqualInner(types, a_fields[i].ty, a_params, av,
                                  b_fields[i].ty, b_params, bv)
         IN IF r.panic \/ ~r.eq THEN r
            ELSE After(FieldsEqualFrom(types, i + 1, a_fields, a_params, r.av,
                                       b_fields, b_params, r.bv), r)

\* fields_equal (lines 173-186)
FieldsEqual(types, a_fields, a_params, av, b_fields, b_params, bv) ==
    IF FieldCountsDiffer(a_fields, b_fields) THEN EqResult(FALSE, av, bv)
    ELSE FieldsEqualFrom(types, 1, a_fields, a_params, av, b_fields, b_params, bv)

\* lines 197-199, from variant i on
VariantsEqualFrom(types, i, a_vars, a_params, av, b_vars, b_params, bv) ==
    IF i > Len(a_vars) \/ i > Len(b_vars) THEN EqResult(TRUE, av, bv)
    ELSE IF a_vars[i].name # b_vars[i].name THEN EqResult(FALSE, av, bv)
    ELSE LET r == FieldsEqual(types, a_vars[i].fields, a_params, av,
                              b_vars[i].fields, b_params, bv)
         IN IF r.panic \/ ~r.eq THEN r
            ELSE After(VariantsEqualFrom(types, i + 1, a_vars, a_params, r.av,
                                         b_vars, b_params, r.bv), r)

\* the match of lines 189-241 on the two type_defs
ShapesEqual(types, a_ty, a_params, av, b_ty, b_params, bv) ==
    CASE a_ty.tag = "Composite" /\ b_ty.tag = "Composite" ->
            FieldsEqual(types, a_ty.fields, a_params, av, b_ty.fields, b_params, bv)
      [] a_ty.tag = "Variant" /\ b_ty.tag = "Variant" ->
            IF Len(a_ty.variants) # Len(b_ty.variants) THEN EqResult(FALSE, av, bv)
            ELSE VariantsEqualFrom(types, 1, a_ty.variants, a_params, av,
                                   b_ty.variants, b_params, bv)
      [] a_ty.tag = "Sequence" /\ b_ty.tag = "Sequence" ->
            TypesEqualInner(types, a_ty.elems[1], a_params, av, b_ty.elems[1], b_params, bv)
      [] a_ty.tag = "Array" /\ b_ty.tag = "Array" ->
            IF a_ty.len # b_ty.len THEN EqResult(FALSE, av, bv)
            ELSE TypesEqualInner(types, a_ty.elems[1], a_params, av,
                                 b_ty.elems[1], b_params, bv)
      [] a_ty.tag = "Tuple" /\ b_ty.tag = "Tuple" ->
            IF Len(a_ty.elems) # Len(b_ty.elems) THEN EqResult(FALSE, av, bv)
            ELSE IdsEqualFrom(types, 1, a_ty.elems, a_params, av, b_ty.elems, b_params, bv)
      [] a_ty.tag = "Primitive" /\ b_ty.tag = "Primitive" ->
            EqResult(a_ty.prim = b_ty.prim, av, bv)
      [] a_ty.tag = "Compact" /\ b_ty.tag = "Compact" ->
            TypesEqualInner(types, a_ty.elems[1], a_params, av, b_ty.elems[1], b_params, bv)
      [] a_ty.tag = "BitSequence" /\ b_ty.tag = "BitSequence" ->
            \* elems = <<bit_store_type, bit_order_type>>; the order is compared
            \* first, and the store whatever the first comparison gave
            LET order == TypesEqualInner(types, a_ty.elems[2], a_params, av,
                                         b_ty.elems[2], b_params, bv)
                store == TypesEqualInner(types, a_ty.elems[1], a_params, order.av,
                                         b_ty.elems[1], b_params, order.bv)
            IN IF order.panic THEN order
               ELSE IF store.panic THEN After(store, order)
               ELSE After(After(EqResult(order.eq /\ store.eq, store.av, store.bv),
                                order), store)
      [] OTHER -> EqResult(FALSE, av, bv)

\* lines 113-114: visited.insert(id)
VisitNothing(visited, id) == visited
Visit(visited, id) == visited \cup {id}

\* calls of types_equal_inner the stack holds, one inside the other
MaxEqDepth == 24

\* types_equal_inner (lines 98-242); the generics list has one level per call
\* the stack holds
TypesEqualInner(types, a, a_parent_params, a_visited, b, b_parent_params, b_visited) ==
    IF Len(a_parent_params) > MaxEqDepth THEN EqOverflow(a_visited, b_visited)
    ELSE IF a = b THEN EqResult(TRUE, a_visited, b_visited)
    ELSE
    LET seen_a == a \in a_visited
        seen_b == b \in b_visited
        av == Visit(a_visited, a)
        bv == Visit(b_visited, b)
        a_generic_idx == IndexForTypeId(a_parent_params, a)
        b_generic_idx == IndexForTypeId(b_parent_params, b)
    IN IF SeenDiffers(seen_a, seen_b) THEN EqResult(FALSE, av, bv)
       ELSE IF seen_a /\ seen_b THEN EqResult(TRUE, av, bv)
       ELSE IF SameGeneric(a_generic_idx, b_generic_idx)
            THEN EqGeneric(av, bv, a, b, a_generic_idx, Len(a_parent_params))
       ELSE IF ~EqInRegistry(types, a) \/ ~EqInRegistry(types, b) THEN EqPanic(av, bv)
       ELSE
       LET a_ty == EqResolve(types, a)
           b_ty == EqResolve(types, b)
       IN IF a_ty.path # b_ty.path THEN EqResult(FALSE, av, bv)
          ELSE IF ParamNamesDiffer(a_ty.type_params, b_ty.type_params)
               THEN EqResult(FALSE, av, bv)
          ELSE Deeper(ShapesEqual(types, a_ty,
                                  GenericsExtend(a_parent_params, a_ty.type_params), av,
                                  b_ty,
                                  GenericsExtend(b_parent_params, b_ty.type_params), bv),
                      Len(a_parent_params))

\* types_equal (lines 83-95)
TypesEqual(a, b, types) ==
    TypesEqualInner(types, a, GenericsEmpty, {}, b, GenericsEmpty, {})

----------------------------------------------------------------------------
(* The registries types_equal is applied to.                               *)

\* leaf types of the generic family
NumLeaves == 2
PrimKinds == <<"U32", "Bool", "U8", "U16", "U64">>

\* struct NestedType<T = generic>(inner), as the nested_type! macro of
\* types_equal_recursing_test builds it
NestedType(generic, inner) ==
    Composite(<<"my", "module", "NestedType">>, <<Param("T", generic)>>,
              <<Field("", "", inner)>>)

\* #[derive(TypeInfo)] struct Foo<T> { _inner: T }
FooType(generic) ==
    Composite(<<"tests", "Foo">>, <<Param("T", generic)>>,
              <<Field("_inner", "T", generic)>>)

\* for the leaf X with ids from b on:
\*   b X, b+1 Vec<X>, b+2 Foo<X>, b+3 Vec<Foo<X>>,
\*   b+4 NestedType<X>(X), b+5 NestedType<X>(Vec<X>), b+6 NestedType<X>(Vec<Foo<X>>)
GenericBlock(leaf) ==
    LET b == 7 * (leaf - 1)
    IN << PrimitiveTy(PrimKinds[leaf]), SequenceTy(b), FooType(b), SequenceTy(b + 2),
          NestedType(b, b), NestedType(b, b + 1), NestedType(b, b + 3) >>

\* the registry of types_equal_recursing_test, for NumLeaves leaf types
GenericRegistry == Flatten([leaf \in 1 .. NumLeaves |-> GenericBlock(leaf)])

\* a registry of self-referential types that share the path m::L:
\*   0 u8, 1 u32
\*   2 struct L { next: Vec<L>, v: u8 }     3 Vec<#2>
\*   4 struct L { next: Vec<L>, v: u8 }     5 Vec<#4>
\*   6 struct L { next: Vec<L> }            7 Vec<#6>
\*   8 struct L { next: Vec<L>, v: u32 }    9 Vec<#8>
\* and of mutually recursive ones:
\*  10 struct X { y: Y#11 }   11 struct Y { x: X#10 }
\*  12 struct X { y: Y#13 }   13 struct Y { x: X#12 }
LinkedType(next, fields) ==
    Composite(<<"m", "L">>, <<>>, <<Field("next", "Vec<L>", next)>> \o fields)

LinkedRegistry ==
    << PrimitiveTy("U8"), PrimitiveTy("U32"),
       LinkedType(3, <<Field("v", "u8", 0)>>), SequenceTy(2),
       LinkedType(5, <<Field("v", "u8", 0)>>), SequenceTy(4),
       LinkedType(7, <<>>), SequenceTy(6),
       LinkedType(9, <<Field("v", "u32", 1)>>), SequenceTy(8),
       Composite(<<"m", "X">>, <<>>, <<Field("y", "Y", 11)>>),
       Composite(<<"m", "Y">>, <<>>, <<Field("x", "X", 10)>>),
       Composite(<<"m", "X">>, <<>>, <<Field("y", "Y", 13)>>),
       Composite(<<"m", "Y">>, <<>>, <<Field("x", "X", 12)>>) >>

\* a registry of types that share a path and differ in one place:
\*   0 u8, 1 u32
\*   2 struct S { x: u8, y: u32 }          3 the same again
\*   4 struct S { x: u8 }                  5 struct S { x: u8, z: u32 }
\*   6 struct S { x: u8, y: Balance }      (y's type is u32 under another name)
\*   7 enum E { A(u8) = 0, B = 1 }         8 enum E { A(u8) = 0, B = 5 }
\*   9 enum E { A(u8, u32) = 0, B = 1 }   10 enum E { A { v: u8 } = 0, B = 1 }
\*  11 [u8; 4]   12 [u8; 5]   13 [u8; 4]
\*  14 (u8, u32) 15 (u8, u32, u8)         16 (u8, u32)
StructS(fields) == Composite(<<"m", "S">>, <<>>, fields)
EnumE(a_fields, b_index) ==
    VariantTy(<<"m", "E">>, <<>>, <<Variant("A", 0, a_fields), Variant("B", b_index, <<>>)>>)

ShapeRegistry ==
    << PrimitiveTy("U8"), PrimitiveTy("U32"),
       StructS(<<Field("x", "u8", 0), Field("y", "u32", 1)>>),
       StructS(<<Field("x", "u8", 0), Field("y", "u32", 1)>>),
       StructS(<<Field("x", "u8", 0)>>),
       StructS(<<Field("x", "u8", 0), Field("z", "u32", 1)>>),
       StructS(<<Field("x", "u8", 0), Field("y", "Balance", 1)>>),
       EnumE(<<Field("", "u8", 0)>>, 1),
       EnumE(<<Field("", "u8", 0)>>, 5),
       EnumE(<<Field("", "u8", 0), Field("", "u32", 1)>>, 1),
       EnumE(<<Field("v", "u8", 0)>>, 1),
       ArrayTy(4, 0), ArrayTy(5, 0), ArrayTy(4, 0),
       TupleTy(<<0, 1>>), TupleTy(<<0, 1, 0>>), TupleTy(<<0, 1>>) >>

\* a registry that refers to ids it does not hold:
\*   0 u8, 1 struct S { x: #5 }, 2 struct S { x: #6 }, 3 (u8, #5)
DanglingRegistry ==
    << PrimitiveTy("U8"), StructS(<<Field("x", "T", 5)>>),
       StructS(<<Field("x", "T", 6)>>), TupleTy(<<0, 5>>) >>

\* a registry in which two structs use the same field types in another order:
\*   0 u8
\*   1 struct X { v: u8 }    2 struct X { v: u8 }
\*   3 struct Y { v: u8 }    4 struct Y { v: u8 }
\*   5 struct S { a: X#1, b: Y#3, c: X#1 }
\*   6 struct S { a: X#2, b: Y#4, c: Y#4 }
\*   7 struct S { a: X#2, b: Y#4, c: X#2 }
SiblingRegistry ==
    << PrimitiveTy("U8"),
       Composite(<<"m", "X">>, <<>>, <<Field("v", "u8", 0)>>),
       Composite(<<"m", "X">>, <<>>, <<Field("v", "u8", 0)>>),
       Composite(<<"m", "Y">>, <<>>, <<Field("v", "u8", 0)>>),
       Composite(<<"m", "Y">>, <<>>, <<Field("v", "u8", 0)>>),
       StructS(<<Field("a", "X", 1), Field("b", "Y", 3), Field("c", "Z", 1)>>),
       StructS(<<Field("a", "X", 2), Field("b", "Y", 4), Field("c", "Z", 4)>>),
       StructS(<<Field("a", "X", 2), Field("b", "Y", 4), Field("c", "Z", 2)>>) >>

\* a registry of types with two generic parameters:
\*   0 u32, 1 bool, 2 u8
\*   3 struct Q<T, U = u32>(u32)          (T has no bound type)
\*   4 struct Q<T = bool, U = u8>(bool)
\*   5 struct Q<T = bool, U = u8>(u8)
\*   6 struct Q<T = u32, U = u32>(u32)
\*   7 struct Q<T = u8, U = bool>(u8)
QType(t, u, inner) ==
    Composite(<<"m", "Q">>, <<Param("T", t), Param("U", u)>>, <<Field("", "", inner)>>)

SlotRegistry ==
    << PrimitiveTy("U32"), PrimitiveTy("Bool"), PrimitiveTy("U8"),
       QType(NoTy, 0, 0), QType(1, 2, 1), QType(1, 2, 2), QType(0, 0, 0), QType(2, 1, 2) >>

Registries ==
    {GenericRegistry, LinkedRegistry, ShapeRegistry, DanglingRegistry,
     SiblingRegistry, SlotRegistry}

\* a session that makes no call
SessionIdle ==
    /\ cache = [i \in Ids |-> Absent]
    /\ stack = <<>>
    /\ crashed = "no"
    /\ calls = 0
    /\ hitMode = "cached"
    /\ recMode = "err"
    /\ failing = {}
    /\ computeCount = Zero
    /\ recurseCount = Zero
    /\ hitCount = Zero
    /\ lastRet = NoRet
    /\ firstOk = [i \in Ids |-> Unset]
    /\ settled = [i \in Ids |-> Unset]
    /\ failedAt = [i \in Ids |-> Unset]

\* a registry and two of its type ids
EqInit ==
    /\ SessionIdle
    /\ PassIdle
    /\ eqTypes \in Registries
    /\ eqA \in 0 .. Len(eqTypes) - 1
    /\ eqB \in 0 .. Len(eqTypes) - 1
    /\ eqOut = NotCalled
    /\ eqRev = NotCalled

\* types_equal(a, b, types)
CallTypesEqual ==
    /\ ~eqOut.called
    /\ eqOut' = TypesEqual(eqA, eqB, eqTypes)
    /\ UNCHANGED <<eqTypes, eqA, eqB, eqRev, tvars, pvars>>

\* types_equal(b, a, types)
CallTypesEqualSwapped ==
    /\ ~eqRev.called
    /\ eqRev' = TypesEqual(eqB, eqA, eqTypes)
    /\ UNCHANGED <<eqTypes, eqA, eqB, eqOut, tvars, pvars>>

EqNext ==
    \/ CallTypesEqual
    \/ CallTypesEqualSwapped

EqSpec == EqInit /\ [][EqNext]_vars

----------------------------------------------------------------------------
(* Part 3: ensure_unique_type_paths (typegen/src/utils.rs) and             *)
(* generate_types_mod (scale-typegen/src/typegen/mod.rs).                  *)
(* Here a path segment is the sequence of its characters, so that          *)
(* format!("{name}{n}") is the concatenation it is in the code.            *)

Digits == <<"0", "1", "2", "3", "4", "5", "6", "7", "8", "9">>

\* n formatted with {n}: its decimal digits
RECURSIVE Decimal(_)
Decimal(n) ==
    IF n < 10 THEN <<Digits[n + 1]>>
    ELSE Decimal(n \div 10) \o <<Digits[(n % 10) + 1]>>

\* scale_info::Path::namespace: all segments but the last
Namespace(path) == IF path = <<>> THEN <<>> ELSE SubSeq(path, 1, Len(path) - 1)

\* scale_info::Path::ident: the last segment
Ident(path) == path[Len(path)]

SkipsGroupingOnEmptyPath(ty) == ty.path = <<>>

\* line 28: types without a namespace are left out of the grouping
SkipsGrouping(ty) == Namespace(ty.path) = <<>>

PathsOf(types) == {types[i].path : i \in 1 .. Len(types)}

\* the outcome of the first loop: per path the groups of ids, or a panic of
\* types_equal
Grouped(by_path) == [panic |-> FALSE, by_path |-> by_path]
GroupingPanicked == [panic |-> TRUE, by_path |-> <<>>]

\* lines 38-51: the new id joins the first group whose first member it is
\* types_equal to, or starts a new group; NoGroup is a panic of types_equal
NoGroup == << <<-1>> >>

RECURSIVE AddToGroupFrom(_, _, _, _)
AddToGroupFrom(groups, g, ty_idx, types) ==
    IF g > Len(groups) THEN Append(groups, <<ty_idx>>)
    ELSE LET r == TypesEqual(ty_idx, groups[g][1], types)
         IN IF r.panic THEN NoGroup
            ELSE IF r.eq THEN [groups EXCEPT ![g] = Append(@, ty_idx)]
            ELSE AddToGroupFrom(groups, g + 1, ty_idx, types)

\* lines 19-52, from the entry at index ty_idx on
RECURSIVE GroupTypesFrom(_, _, _)
GroupTypesFrom(types, ty_idx, by_path) ==
    IF ty_idx >= Len(types) THEN Grouped(by_path)
    ELSE LET ty == types[ty_idx + 1]
         IN IF SkipsGrouping(ty) THEN GroupTypesFrom(types, ty_idx + 1, by_path)
            ELSE LET groups == AddToGroupFrom(by_path[ty.path], 1, ty_idx, types)
                 IN IF groups = NoGroup THEN GroupingPanicked
                    ELSE GroupTypesFrom(types, ty_idx + 1,
                                        [by_path EXCEPT ![ty.path] = groups])

\* types_with_same_type_path_grouped_by_shape after the first loop
GroupTypes(types) == GroupTypesFrom(types, 0, [q \in PathsOf(types) |-> <<>>])

NeedsRenamingAlways(groups) == Len(groups) > 0

\* line 57: .filter(|g| g.len() > 1)
NeedsRenaming(groups) == Len(groups) > 1

\* the number n the second loop is at when it reaches ty_id (lines 61-72)
GroupNumber(groups, ty_id) ==
    CHOOSE n \in 1 .. Len(groups) : \E k \in 1 .. Len(groups[n]) : groups[n][k] = ty_id

InSomeGroup(groups, ty_id) ==
    \E n \in 1 .. Len(groups) : \E k \in 1 .. Len(groups[n]) : groups[n][k] = ty_id

\* line 69: *name = format!("{name}{n}")
Renamed(ty, n) == [ty EXCEPT !.path[Len(ty.path)] = @ \o Decimal(n)]

\* lines 54-73. The paths are visited in the HashMap's order, which has no
\* effect: n starts at 1 for each path and an id is in one group of one path.
RenameTypes(types, by_path) ==
    [i \in 1 .. Len(types) |->
        LET groups == by_path[types[i].path]
        IN IF NeedsRenaming(groups) /\ InSomeGroup(groups, i - 1)
           THEN Renamed(types[i], GroupNumber(groups, i - 1))
           ELSE types[i]]

\* Field::name is an Option: NoName is None
NoName == ""

\* syn::parse_str::<Ident>(name) of a field or variant name: these do not parse
UnparsableNames == {"", "9lives"}
ParsesAsIdent(name) == name \notin UnparsableNames

\* syn::parse_str::<Ident> of a path segment: it is not empty and does not
\* start with a digit
SegmentParsesAsIdent(segment) ==
    /\ segment # <<>>
    /\ \A d \in 1 .. Len(Digits) : segment[1] # Digits[d]

\* Result<CompositeIRKind, TypegenError>
KindOk(kind, n) == [ok |-> TRUE, err |-> "", kind |-> kind, n |-> n]
KindErr(e) == [ok |-> FALSE, err |-> e, kind |-> "", n |-> 0]

\* TypePathResolver::resolve_field_type_path: the field's type has to be in
\* the registry
ResolveFieldTypePath(types, id) ==
    IF id >= 0 /\ id < Len(types) THEN "" ELSE "TypeNotFound"

\* the closure of lines 170-191 (named) and 196-216 (unnamed) on one field:
\* the error it returns, or ""
FieldError(types, field, named) ==
    IF named /\ ~ParsesAsIdent(field.name) THEN "SynParseError"
    ELSE ResolveFieldTypePath(types, field.ty)

\* collect::<Result<Vec<_>, _>>() stops at the first field that fails
FirstFieldError(types, fields, named) ==
    LET bad == {i \in 1 .. Len(fields) : FieldError(types, fields[i], named) # ""}
    IN IF bad = {} THEN ""
       ELSE FieldError(types, fields[CHOOSE i \in bad : \A j \in bad : i <= j], named)

MixedFieldsNeverFound(fields) == FALSE

\* lines 162-164: neither all fields are named nor all are unnamed
MixedFields(fields) ==
    LET all_fields_named == \A i \in 1 .. Len(fields) : fields[i].name # NoName
        all_fields_unnamed == \A i \in 1 .. Len(fields) : fields[i].name = NoName
    IN ~(all_fields_named \/ all_fields_unnamed)

\* TypeGenerator::create_composite_ir_kind (lines 151-221)
CreateCompositeIrKind(types, fields) ==
    IF fields = <<>> THEN KindOk("NoFields", 0)
    ELSE IF MixedFields(fields) THEN KindErr("InvalidFields")
    ELSE LET named == fields[1].name # NoName
             e == FirstFieldError(types, fields, named)
         IN IF e # "" THEN KindErr(e)
            ELSE KindOk(IF named THEN "Named" ELSE "Unnamed", Len(fields))

\* Result<Option<TypeIR>, TypegenError>
IrNone == [ok |-> TRUE, err |-> "", some |-> FALSE, ir |-> <<>>]
IrSome(ir) == [ok |-> TRUE, err |-> "", some |-> TRUE, ir |-> ir]
IrErr(e) == [ok |-> FALSE, err |-> e, some |-> FALSE, ir |-> <<>>]

\* lines 108-118: the variants in order, up to the first that fails
RECURSIVE VariantKindsFrom(_, _, _, _)
VariantKindsFrom(types, variants, i, kinds) ==
    IF i > Len(variants) THEN IrSome(kinds)
    ELSE IF ~ParsesAsIdent(variants[i].name) THEN IrErr("SynParseError")
    ELSE LET kind == CreateCompositeIrKind(types, variants[i].fields)
         IN IF ~kind.ok THEN IrErr(kind.err)
            ELSE VariantKindsFrom(types, variants, i + 1,
                                  Append(kinds, <<variants[i].index, kind.kind, kind.n>>))

\* TypeGenerator::type_derives (lines 254-259): the joined path has to parse
\* as a syn::TypePath
TypeDerivesFails(ty) ==
    \E i \in 1 .. Len(ty.path) : ~SegmentParsesAsIdent(ty.path[i])

\* TypeGenerator::create_type_ir (lines 78-140)
CreateTypeIr(types, ty) ==
    IF ty.tag # "Composite" /\ ty.tag # "Variant" THEN IrNone
    ELSE IF ~SegmentParsesAsIdent(Ident(ty.path)) THEN IrErr("SynParseError")
    ELSE LET kinds == IF ty.tag = "Composite"
                      THEN LET kind == CreateCompositeIrKind(types, ty.fields)
                           IN IF ~kind.ok THEN IrErr(kind.err)
                              ELSE IrSome(<<<<0, kind.kind, kind.n>>>>)
                      ELSE VariantKindsFrom(types, ty.variants, 1, <<>>)
         IN IF ~kinds.ok THEN kinds
            ELSE IF TypeDerivesFails(ty) THEN IrErr("SynParseError")
            ELSE kinds

\* Result<ModuleIR, TypegenError>: the types of the module by path, or the error
Generated(module) == [called |-> TRUE, ok |-> TRUE, err |-> "", at |-> -1, types |-> module]
GenerateFailed(e, i) == [called |-> TRUE, ok |-> FALSE, err |-> e, at |-> i, types |-> {}]

\* line 70: types.insert(path, type_ir) replaces the entry the path had
Inserted(module, path, ir) == {t \in module : t[1] # path} \cup {<<path, ir>>}

\* the loop of lines 53-73 from the entry at index i on
RECURSIVE GenerateFrom(_, _, _, _)
GenerateFrom(types, subst, i, module) ==
    IF i >= Len(types) THEN Generated(module)
    ELSE LET ty == types[i + 1]
         IN IF ty.path \in subst THEN GenerateFrom(types, subst, i + 1, module)
            ELSE IF Namespace(ty.path) = <<>> THEN GenerateFrom(types, subst, i + 1, module)
            ELSE LET type_ir == CreateTypeIr(types, ty)
                 IN IF ~type_ir.ok THEN GenerateFailed(type_ir.err, i)
                    ELSE IF ~type_ir.some THEN GenerateFrom(types, subst, i + 1, module)
                    ELSE GenerateFrom(types, subst, i + 1,
                                      Inserted(module, ty.path, type_ir.ir))

\* Path segments, character by character
SegM == <<"m">>
SegFoo == <<"F", "o", "o">>
SegFoo1 == <<"F", "o", "o", "1">>
SegP == <<"P">>
SegMix == <<"M", "i", "x">>

\* the type the foo! macro of ensure_unique_type_paths_test builds: a
\* primitive under a path
PathPrimitive(path, kind) == TypeNode(path, <<>>, "Primitive", <<>>, <<>>, <<>>, 0, kind)

\* every registry of this part starts with: 0 u32, 1 bool
PassLeaves == <<PrimitiveTy("U32"), PrimitiveTy("Bool")>>

\* struct P<T = generic>(inner)
PType(generic, inner) ==
    Composite(<<SegM, SegP>>, <<Param("T", generic)>>, <<Field(NoName, "", inner)>>)

\* the entries a registry is made of
PassMenu ==
    << PathPrimitive(<<SegM, SegFoo>>, "Bool"),
       PathPrimitive(<<SegM, SegFoo>>, "U32"),
       PathPrimitive(<<SegM, SegFoo>>, "U128"),
       PathPrimitive(<<SegM, SegFoo1>>, "U32"),
       PathPrimitive(<<SegFoo>>, "Bool"),
       PathPrimitive(<<SegFoo>>, "U32"),
       PType(0, 0),
       PType(1, 1),
       PType(1, 0),
       Composite(<<SegM, SegMix>>, <<>>, <<Field("x", "u32", 0), Field(NoName, "bool", 1)>>),
       Composite(<<SegM, SegMix>>, <<>>, <<Field("x", "u32", 0), Field("9lives", "bool", 1)>>),
       Composite(<<SegM, SegMix>>, <<>>, <<>>),
       Composite(<<SegMix>>, <<>>, <<Field(NoName, "u32", 0), Field("y", "bool", 1)>>),
       VariantTy(<<SegM, SegFoo>>, <<>>,
                 <<Variant("A", 0, <<Field(NoName, "u32", 0)>>),
                   Variant("B", 1, <<Field(NoName, "u32", 0), Field("y", "bool", 1)>>)>>) >>

\* entries of a registry after the two leaves
RegLen == 2

\* the registry with the given entries of the menu
RegistryOf(picks) == PassLeaves \o [i \in 1 .. Len(picks) |-> PassMenu[picks[i]]]

RECURSIVE PicksOfLen(_)
PicksOfLen(n) ==
    IF n = 0 THEN {<<>>}
    ELSE {Append(q, e) : q \in PicksOfLen(n - 1), e \in 1 .. Len(PassMenu)}

\* ensure_unique_type_paths_test: Foo1, Foo2: Bool; Foo3: U32; Foo4..Foo6: U128
TestPicks == <<1, 1, 2, 3, 3, 3>>

\* longer registries: the one of the test, and the orders of the three P types
NamedPicks ==
    {TestPicks, <<1, 1, 1>>, <<1, 2, 4>>, <<4, 1, 2>>, <<5, 6, 1, 2>>,
     <<7, 8, 9>>, <<8, 7, 9>>, <<7, 9, 8>>, <<9, 7, 8>>}

PassRegistries ==
    {RegistryOf(q) : q \in NamedPicks \cup UNION {PicksOfLen(n) : n \in 0 .. RegLen}}

\* a registry and settings, before any pass
PassInit ==
    /\ SessionIdle
    /\ EqIdle
    /\ regTypes \in PassRegistries
    /\ regBefore = regTypes
    /\ substitutes \in {{}, {<<SegM, SegMix>>}}
    /\ deduped = FALSE
    /\ genOut = NotGenerated

\* ensure_unique_type_paths(&mut types) (lines 15-74); a panic of types_equal
\* ends the pass before anything is renamed
EnsureUniqueTypePaths ==
    /\ ~deduped
    /\ ~genOut.called
    /\ LET grouped == GroupTypes(regTypes)
       IN /\ ~grouped.panic
          /\ regTypes' = RenameTypes(regTypes, grouped.by_path)
    /\ deduped' = TRUE
    /\ UNCHANGED <<regBefore, substitutes, genOut, tvars, evars>>

\* TypeGenerator::generate_types_mod (lines 50-76)
GenerateTypesMod ==
    /\ ~genOut.called
    /\ genOut' = GenerateFrom(regTypes, substitutes, 0, {})
    /\ UNCHANGED <<regTypes, regBefore, substitutes, deduped, tvars, evars>>

PassNext ==
    \/ EnsureUniqueTypePaths
    \/ GenerateTypesMod

PassSpec == PassInit /\ [][PassNext]_vars

----------------------------------------------------------------------------
(* Properties of types_equal.                                              *)

\* C9: types_equal(x, x) is true, and types_equal(a, b) = types_equal(b, a),
\* for all ids of the registries, self-referential and generic types included.
C9_ReflexiveSymmetric ==
    /\ (eqOut.called /\ eqA = eqB) => (eqOut.eq /\ ~eqOut.panic)
    /\ (eqOut.called /\ eqRev.called) =>
          (eqOut.eq = eqRev.eq /\ eqOut.panic = eqRev.panic)

C9_Witness ==
    /\ eqTypes = LinkedRegistry
    /\ eqA = 2
    /\ eqB = 4
    /\ eqOut.called
    /\ eqRev.called
    /\ eqOut.eq
    /\ eqRev.eq
    /\ 3 \in eqOut.av
    /\ 5 \in eqOut.bv

\* What a type looks like once every type id bound to a declared generic
\* parameter of an enclosing type is replaced by that parameter's name: the
\* path, the parameter names, the shape, and the same of the types referred
\* to. (Defined on types without reference cycles.)
ParamNames(ty) == [i \in 1 .. Len(ty.type_params) |-> ty.type_params[i].name]

BoundNames(ty) ==
    {<<ty.type_params[i].ty, ty.type_params[i].name>> : i \in 1 .. Len(ty.type_params)}

RECURSIVE Skeleton(_, _, _)
Skeleton(types, id, bound) ==
    IF \E bn \in bound : bn[1] = id
    THEN [kind |-> "param", path |-> <<>>, names |-> <<>>, len |-> 0,
          label |-> (CHOOSE bn \in bound : bn[1] = id)[2], kids |-> <<>>]
    ELSE LET ty == EqResolve(types, id)
             inner == bound \cup BoundNames(ty)
             refs == ChildrenOf(ty)
         IN [kind |-> ty.tag, path |-> ty.path, names |-> ParamNames(ty),
             len |-> ty.len, label |-> ty.prim,
             kids |-> [i \in 1 .. Len(refs) |-> Skeleton(types, refs[i], inner)]]

\* how many types lie between a type and the use of a generic parameter in
\* its first field
RECURSIVE UseDepth(_, _, _)
UseDepth(types, id, bound) ==
    IF id \in bound THEN 0
    ELSE LET ty == EqResolve(types, id)
         IN 1 + UseDepth(types, ChildrenOf(ty)[1], bound \cup {q[1] : q \in BoundNames(ty)})

IsNestedType(types, id) == EqResolve(types, id).path = <<"my", "module", "NestedType">>

\* C10: two NestedType<T> types of the registry of the test, which differ
\* only in the type bound to T, are types_equal, whether T is used as the
\* field type, one level deeper (Vec<T>) or two levels deeper (Vec<Foo<T>>);
\* two that use T at different depths are not.
C10_GenericPosition ==
    (/\ eqOut.called
     /\ eqTypes = GenericRegistry
     /\ IsNestedType(eqTypes, eqA)
     /\ IsNestedType(eqTypes, eqB)) =>
        /\ ~eqOut.panic
        /\ Skeleton(eqTypes, eqA, {}) = Skeleton(eqTypes, eqB, {}) => eqOut.eq
        /\ UseDepth(eqTypes, eqA, {}) # UseDepth(eqTypes, eqB, {}) => ~eqOut.eq

C10_Witness ==
    /\ eqTypes = GenericRegistry
    /\ eqA = 6
    /\ eqB = 13
    /\ eqOut.called
    /\ eqOut.eq
    /\ UseDepth(eqTypes, eqA, {}) = 3
    /\ Skeleton(eqTypes, eqA, {}) = Skeleton(eqTypes, eqB, {})

\* two field lists differ in length, or at some position in the field's name
\* or in its type-name literal
FieldListsDiffer(a_fields, b_fields) ==
    \/ Len(a_fields) # Len(b_fields)
    \/ \E i \in 1 .. Len(a_fields) :
          \/ a_fields[i].name # b_fields[i].name
          \/ a_fields[i].type_name # b_fields[i].type_name

\* the differences C11 names, read off the two registry entries
DeclaredDifference(a_ty, b_ty) ==
    \/ /\ a_ty.tag = "Composite" /\ b_ty.tag = "Composite"
       /\ FieldListsDiffer(a_ty.fields, b_ty.fields)
    \/ /\ a_ty.tag = "Variant" /\ b_ty.tag = "Variant"
       /\ \E i \in 1 .. Len(a_ty.variants) :
             /\ i <= Len(b_ty.variants)
             /\ FieldListsDiffer(a_ty.variants[i].fields, b_ty.variants[i].fields)
    \/ a_ty.tag = "Array" /\ b_ty.tag = "Array" /\ a_ty.len # b_ty.len
    \/ a_ty.tag = "Tuple" /\ b_ty.tag = "Tuple" /\ Len(a_ty.elems) # Len(b_ty.elems)

\* C11: for two different ids with the same path, types_equal is false when
\* the two composites (or two corresponding variants) differ in field count,
\* in a field's name or in a field's type-name literal, when two arrays
\* differ in length and when two tuples differ in arity.
C11_FieldsAndLengths ==
    (/\ eqOut.called
     /\ eqA # eqB
     /\ EqResolve(eqTypes, eqA).path = EqResolve(eqTypes, eqB).path
     /\ DeclaredDifference(EqResolve(eqTypes, eqA), EqResolve(eqTypes, eqB))) =>
        (~eqOut.eq /\ ~eqOut.panic)

C11_Witness ==
    /\ eqTypes = ShapeRegistry
    /\ eqA = 2
    /\ eqB = 6
    /\ eqOut.called
    /\ ~eqOut.eq
    /\ TypesEqual(2, 3, ShapeRegistry).eq

\* C12: two variant types with the same path, whose variants have the same
\* names and fields in the same order but where some corresponding variant
\* has a different discriminant (index), are not types_equal.
C12_VariantDiscriminants ==
    LET a_ty == EqResolve(eqTypes, eqA)
        b_ty == EqResolve(eqTypes, eqB)
    IN (/\ eqOut.called
        /\ a_ty.tag = "Variant" /\ b_ty.tag = "Variant"
        /\ a_ty.path = b_ty.path
        /\ Len(a_ty.variants) = Len(b_ty.variants)
        /\ \E i \in 1 .. Len(a_ty.variants) :
              a_ty.variants[i].index # b_ty.variants[i].index) =>
           ~eqOut.eq

\* every id a type of the registry refers to, in its definition or as the
\* type bound to a generic parameter, is an id of the registry
AllIdsExist(types) ==
    \A i \in 1 .. Len(types) :
        /\ \A k \in 1 .. Len(ChildrenOf(types[i])) : EqInRegistry(types, ChildrenOf(types[i])[k])
        /\ \A k \in 1 .. Len(types[i].type_params) :
              types[i].type_params[k].ty # NoTy =>
                 EqInRegistry(types, types[i].type_params[k].ty)

\* C17: on a registry in which all referenced ids exist, types_equal returns
\* true or false: it does not panic and does not exhaust the stack. Every
\* nested call that goes on to compare shapes has added a new id to each
\* visited set, so the nesting depth is at most the size of either visited
\* set and at most the number of registry entries.
C17_NeverFails ==
    (eqOut.called /\ AllIdsExist(eqTypes)) =>
        /\ ~eqOut.panic
        /\ ~eqOut.overflow
        /\ eqOut.eq \in BOOLEAN
        /\ eqOut.av \subseteq 0 .. Len(eqTypes) - 1
        /\ eqOut.bv \subseteq 0 .. Len(eqTypes) - 1
        /\ eqOut.depth <= Cardinality(eqOut.av)
        /\ eqOut.depth <= Cardinality(eqOut.bv)
        /\ eqOut.depth <= Len(eqTypes)

C17_Witness ==
    /\ eqTypes = LinkedRegistry
    /\ eqA = 10
    /\ eqB = 12
    /\ eqOut.called
    /\ eqOut.eq
    /\ eqOut.depth = 2
    /\ eqOut.av = {10, 11}
    /\ eqOut.bv = {12, 13}

\* the pairs of field lists types_equal compares for two types: the
\* composites' fields, or the fields of corresponding variants
FieldListPairs(a_ty, b_ty) ==
    IF a_ty.tag = "Composite" /\ b_ty.tag = "Composite"
    THEN {<<a_ty.fields, b_ty.fields>>}
    ELSE IF a_ty.tag = "Variant" /\ b_ty.tag = "Variant"
    THEN {<<a_ty.variants[i].fields, b_ty.variants[i].fields>> :
            i \in 1 .. IF Len(a_ty.variants) < Len(b_ty.variants)
                       THEN Len(a_ty.variants) ELSE Len(b_ty.variants)}
    ELSE {}

\* the generics in scope for the fields of a type compared at the top
FieldScope(ty) == GenericsExtend(GenericsEmpty, ty.type_params)

\* C18: when types_equal(a, b) is true for two composites or variants, then
\* at every field position the two field types are the same id, or map to
\* the same generic-parameter index in scope, or have the same path and the
\* same shape tag.
C18_FieldwiseSound ==
    LET a_ty == EqResolve(eqTypes, eqA)
        b_ty == EqResolve(eqTypes, eqB)
    IN (eqOut.called /\ eqOut.eq /\ eqA # eqB) =>
          \A fl \in FieldListPairs(a_ty, b_ty) :
             \A k \in 1 .. Len(fl[1]) :
                LET x == fl[1][k].ty
                    y == fl[2][k].ty
                IN \/ x = y
                   \/ SameGeneric(IndexForTypeId(FieldScope(a_ty), x),
                                  IndexForTypeId(FieldScope(b_ty), y))
                   \/ /\ EqResolve(eqTypes, x).path = EqResolve(eqTypes, y).path
                      /\ EqResolve(eqTypes, x).tag = EqResolve(eqTypes, y).tag

\* C19: when lines 135-139 return true for two different ids that are field
\* types of the two types compared, the index is the declared position of a
\* generic parameter of either type, and the two ids are the types bound to
\* the parameters at that position.
C19_GenericSlot ==
    LET a_params == EqResolve(eqTypes, eqA).type_params
        b_params == EqResolve(eqTypes, eqB).type_params
    IN eqOut.called =>
          \A g \in eqOut.generic :
             g.level = 2 =>
                /\ g.idx + 1 <= Len(a_params)
                /\ g.idx + 1 <= Len(b_params)
                /\ a_params[g.idx + 1].ty = g.a
                /\ b_params[g.idx + 1].ty = g.b
                /\ a_params[g.idx + 1].name = b_params[g.idx + 1].name

----------------------------------------------------------------------------
(* Properties of ensure_unique_type_paths and generate_types_mod.          *)

\* the ids of the entries that had the path before the pass
SharingPath(path) == {i \in 0 .. Len(regBefore) - 1 : regBefore[i + 1].path = path}

\* the first entry of the same path that id is types_equal to: the first
\* member of its structural sub-group
FirstOfShape(id) ==
    LET same == {j \in SharingPath(regBefore[id + 1].path) : TypesEqual(id, j, regBefore).eq}
    IN CHOOSE j \in same : \A k \in same : j <= k

\* the sub-groups of a path, each named by its first member
SubGroups(path) == {FirstOfShape(i) : i \in SharingPath(path)}

\* the 1-based number of id's sub-group, in the order of first members
SubGroupNumber(id) ==
    Cardinality({f \in SubGroups(regBefore[id + 1].path) : f <= FirstOfShape(id)})

\* the entries the pass puts in sub-groups: those with a namespace
TakesPart(id) == Len(regBefore[id + 1].path) >= 2

\* the path with the decimal number appended to its final segment
WithSuffix(path, n) == Namespace(path) \o <<Ident(path) \o Decimal(n)>>

C14_UniquePaths ==
    deduped =>
        \A i, j \in 0 .. Len(regTypes) - 1 :
            (/\ i # j
             /\ Len(regTypes[i + 1].path) >= 2
             /\ regTypes[i + 1].path = regTypes[j + 1].path) =>
                TypesEqual(i, j, regTypes).eq

\* the pass has changed the path of the entry
WasRenamed(id) == regTypes[id + 1].path # regBefore[id + 1].path

\* the pass changes nothing but the final path segment of an entry, and
\* that by appending to it
OnlyFinalSegmentChanged ==
    /\ Len(regTypes) = Len(regBefore)
    /\ \A id \in 0 .. Len(regBefore) - 1 :
          LET before == regBefore[id + 1]
              after == regTypes[id + 1]
          IN /\ [after EXCEPT !.path = before.path] = before
             /\ Len(after.path) = Len(before.path)
             /\ Namespace(after.path) = Namespace(before.path)
             /\ before.path # <<>> =>
                   SubSeq(Ident(after.path), 1, Len(Ident(before.path))) = Ident(before.path)

\* C15 as it is written: exactly the entries with an empty path are left out
\* of the grouping, so that two structurally different entries that share a
\* non-empty path (a single segment included) are renamed; nothing but final
\* segments changes.
C15_ScopeByEmptyPath ==
    deduped =>
        /\ OnlyFinalSegmentChanged
        /\ \A i, j \in 0 .. Len(regBefore) - 1 :
              /\ regBefore[i + 1].path = <<>> => ~WasRenamed(i)
              /\ (/\ regBefore[i + 1].path # <<>>
                  /\ regBefore[i + 1].path = regBefore[j + 1].path
                  /\ ~TypesEqual(i, j, regBefore).eq) => (WasRenamed(i) /\ WasRenamed(j))

\* the first entry that has the path
FirstWithPath(path) ==
    CHOOSE i \in SharingPath(path) : \A j \in SharingPath(path) : i <= j

\* C15, amended: the entries left out of the grouping are those without a
\* namespace (an empty path or a single segment), and they are never
\* renamed; every entry with a namespace takes part: when one of them is not
\* types_equal to the first entry of its path, all entries of the path are
\* renamed; nothing but final segments changes.
C15_ScopeByNamespace ==
    deduped =>
        /\ OnlyFinalSegmentChanged
        /\ \A i \in 0 .. Len(regBefore) - 1 :
              LET path == regBefore[i + 1].path
              IN /\ Len(path) <= 1 => ~WasRenamed(i)
                 /\ (/\ Len(path) >= 2
                     /\ ~TypesEqual(i, FirstWithPath(path), regBefore).eq) =>
                        \A j \in SharingPath(path) : WasRenamed(j)

C15_Witness ==
    /\ deduped
    /\ regBefore = RegistryOf(<<5, 6, 1, 2>>)
    /\ ~WasRenamed(2)
    /\ ~WasRenamed(3)
    /\ regTypes[5].path = <<SegM, SegFoo \o <<"1">>>>
    /\ regTypes[6].path = <<SegM, SegFoo \o <<"2">>>>

\* some field of the list has a name and some field has none
SomeNamedSomeNot(fields) ==
    /\ \E i \in 1 .. Len(fields) : fields[i].name # NoName
    /\ \E i \in 1 .. Len(fields) : fields[i].name = NoName

\* the field lists of a type: a composite's, or one per variant
FieldLists(ty) ==
    IF ty.tag = "Composite" THEN {ty.fields}
    ELSE IF ty.tag = "Variant" THEN {ty.variants[i].fields : i \in 1 .. Len(ty.variants)}
    ELSE {}

\* generate_types_mod builds a type for the entry: it is not substituted, has
\* a namespace and is a composite or a variant
IsGenerated(ty) ==
    /\ ty.path \notin substitutes
    /\ Len(ty.path) >= 2
    /\ ty.tag \in {"Composite", "Variant"}

\* C16: create_composite_ir_kind returns InvalidFields for a field list with
\* named and unnamed fields and NoFields for an empty one; generate_types_mod
\* returns the error, and no module, when a type it builds has such a list.
C16_MixedFields ==
    genOut.called =>
        /\ \A i \in 1 .. Len(regTypes) : \A fields \in FieldLists(regTypes[i]) :
              LET kind == CreateCompositeIrKind(regTypes, fields)
              IN /\ SomeNamedSomeNot(fields) => (~kind.ok /\ kind.err = "InvalidFields")
                 /\ fields = <<>> => (kind.ok /\ kind.kind = "NoFields")
                 /\ (kind.ok /\ kind.kind = "Named") =>
                       \A k \in 1 .. Len(fields) : fields[k].name # NoName
                 /\ (kind.ok /\ kind.kind = "Unnamed") =>
                       \A k \in 1 .. Len(fields) : fields[k].name = NoName
        /\ (\E i \in 1 .. Len(regTypes) :
               /\ IsGenerated(regTypes[i])
               /\ \E fields \in FieldLists(regTypes[i]) : SomeNamedSomeNot(fields)) =>
              (~genOut.ok /\ genOut.types = {})
        /\ (~genOut.ok /\ genOut.err = "InvalidFields") =>
              /\ IsGenerated(regTypes[genOut.at + 1])
              /\ \E fields \in FieldLists(regTypes[genOut.at + 1]) : SomeNamedSomeNot(fields)
        /\ ~genOut.ok => genOut.types = {}

C16_Witness ==
    /\ genOut.called
    /\ ~genOut.ok
    /\ genOut.err = "InvalidFields"
    /\ genOut.at = 3
    /\ IsGenerated(regTypes[3])
    /\ regTypes[3].fields = <<>>
    /\ regTypes[4].tag = "Variant"

\* C20: after the pass, two entries that had the same path are types_equal
\* exactly when they carry the same final segment. (Stated for the paths
\* with a namespace, which are the ones the pass groups.)
C20_Partition ==
    deduped =>
        \A i, j \in 0 .. Len(regBefore) - 1 :
            (/\ i # j
             /\ Len(regBefore[i + 1].path) >= 2
             /\ regBefore[i + 1].path = regBefore[j + 1].path) =>
                (TypesEqual(i, j, regBefore).eq <=>
                    Ident(regTypes[i + 1].path) = Ident(regTypes[j + 1].path))

====
